---- MODULE Spec2Model ----
(***************************************************************************)
(* wave1d: explicit finite-difference integration of the one-dimensional   *)
(* damped wave equation (src/wave1d.cpp), together with the parameter      *)
(* reader readFile of src/fileInteraction.cpp.                             *)
(*                                                                         *)
(* Numbers.  A C++ double is modelled as a decimal fixed-point number: a   *)
(* record [k |-> "fin", v |-> n] stands for n / Scale, and every           *)
(* arithmetic operation rounds its exact result to the nearest multiple   *)
(* of 1 / Scale.  Division by zero gives the IEEE results (NaN for 0/0,    *)
(* an infinity otherwise).  size_t is an unsigned integer of SizeBits      *)
(* bits, with wrap-around subtraction.                                     *)
(***************************************************************************)
EXTENDS Integers, Sequences, FiniteSets, TLC

VARIABLES
    unit,        \* which entry point runs: "main" or "readFile"
    pc,          \* position in the code of that entry point
    argc,        \* main: number of command-line words
    exists,      \* whether the parameter file exists
    param,       \* the Parameters object
    err,         \* diagnostics written to std::cerr, in order
    exitStatus,  \* process exit status, -1 while the process runs
    heap,        \* the arrays made by make_unique<double[]>, by buffer id
    x,           \* handle (buffer id) of the coordinate array, 0 = none
    rho_prev,    \* handle of the field at time t-1
    rho,         \* handle of the field at time t
    rho_next,    \* handle of the field at time t+1
    s,           \* time-step loop counter
    i,           \* interior loop counter
    out,         \* what has been written to fout
    pre,         \* history: handles and fields at the start of the current step
    writes,      \* history: <<buffer id, index>> written in the current step
    iters,       \* history: interior iterations executed in the current step
    ub           \* history: erroneous operations performed so far

vars == <<unit, pc, argc, exists, param, err, exitStatus, heap, x, rho_prev,
          rho, rho_next, s, i, out, pre, writes, iters, ub>>

----------------------------------------------------------------------------
(* Bounds of the model *)

\* width of size_t in the model (64 in the build)
SizeBits == 8

\* largest runtime, in whole time units, of the enumerated parameter files
MaxRuntime == 1

\* largest argc tried
MaxArgc == 3

----------------------------------------------------------------------------
(* double *)

Scale == 10 ^ 3

SizeMod == 2 ^ SizeBits

Huge == 2 ^ 30

Sgn(n) == IF n > 0 THEN 1 ELSE IF n < 0 THEN -1 ELSE 0

Abs(n) == IF n < 0 THEN -n ELSE n

\* n / d rounded to the nearest integer, halves away from zero (d # 0)
RoundDiv(n, d) == Sgn(n) * Sgn(d) * ((2 * Abs(n) + Abs(d)) \div (2 * Abs(d)))

D(v) == [k |-> "fin", v |-> v]

NaN == [k |-> "nan", v |-> 0]

Inf(sg) == [k |-> "inf", v |-> sg]

\* the double with the value of the integer n
Whole(n) == D(n * Scale)

isnan(a) == a.k = "nan"

fneg(a) == [a EXCEPT !.v = -a.v]

fadd(a, b) ==
    IF a.k = "fin" /\ b.k = "fin" THEN D(a.v + b.v)
    ELSE IF isnan(a) \/ isnan(b) THEN NaN
    ELSE IF a.k = "inf" /\ b.k = "inf" THEN (IF a.v = b.v THEN a ELSE NaN)
    ELSE IF a.k = "inf" THEN a ELSE b

fsub(a, b) == fadd(a, fneg(b))

fmul(a, b) ==
    IF a.k = "fin" /\ b.k = "fin" THEN D(RoundDiv(a.v * b.v, Scale))
    ELSE IF isnan(a) \/ isnan(b) THEN NaN
    ELSE IF a.v = 0 \/ b.v = 0 THEN NaN
    ELSE Inf(Sgn(a.v) * Sgn(b.v))

fdiv(a, b) ==
    IF a.k = "fin" /\ b.k = "fin"
    THEN IF b.v # 0 THEN D(RoundDiv(a.v * Scale, b.v))
         ELSE IF a.v = 0 THEN NaN ELSE Inf(Sgn(a.v))
    ELSE IF isnan(a) \/ isnan(b) THEN NaN
    ELSE IF a.k = "inf" /\ b.k = "inf" THEN NaN
    ELSE IF a.k = "inf" THEN Inf(a.v * (IF b.v < 0 THEN -1 ELSE 1))
    ELSE D(0)

fabs(a) == [a EXCEPT !.v = Abs(a.v)]

Ord(a) == IF a.k = "inf" THEN a.v * Huge ELSE a.v

\* the comparisons are false as soon as an operand is NaN
flt(a, b) == ~isnan(a) /\ ~isnan(b) /\ Ord(a) < Ord(b)

fle(a, b) == ~isnan(a) /\ ~isnan(b) /\ Ord(a) <= Ord(b)

fgt(a, b) == flt(b, a)

fge(a, b) == fle(b, a)

----------------------------------------------------------------------------
(* size_t *)

\* a - b in size_t
usub(a, b) == (a - b + SizeMod) % SizeMod

\* a + b in size_t
uadd(a, b) == (a + b) % SizeMod

\* static_cast<size_t>(q) is defined when the truncated value fits size_t
CastDefined(q) == q.k = "fin" /\ q.v > -Scale /\ q.v \div Scale < SizeMod

\* what builds give for a conversion that is not defined: 0 (x86-64, from
\* +infinity), the top bit (x86-64, from NaN), all ones (saturating targets)
CastUB == {0, SizeMod \div 2, SizeMod - 1}

\* mutant of SizeCast: the conversion rounds to the nearest integer
SizeCastNearest(q) ==
    IF CastDefined(q) THEN {IF q.v < 0 THEN 0 ELSE (q.v + Scale \div 2) \div Scale}
    ELSE CastUB

\* the possible results of static_cast<size_t>(q): truncation toward zero
SizeCast(q) ==
    IF CastDefined(q) THEN {IF q.v < 0 THEN 0 ELSE q.v \div Scale} ELSE CastUB

----------------------------------------------------------------------------
(* The parameter file *)

\* a whitespace-delimited token: a decimal number or any other word
Num(v) == [num |-> TRUE, v |-> v, text |-> "number"]

Word(t) == [num |-> FALSE, v |-> 0, text |-> t]

\* the eight tokens c tau x1 x2 runtime dx outtime outfilename
ParamFile(c, tau, x1, x2, runtime, dx, outtime, name) ==
    <<Num(c), Num(tau), Num(x1), Num(x2), Num(runtime), Num(dx),
      Num(outtime), Word(name)>>

Half == Scale \div 2

\* the enumerated well-formed files: each constraint of the input check is
\* met by some and broken by others
GridFiles ==
    { ParamFile(c * Scale, tau * Scale, x1 * Scale, x2 * Scale,
                runtime * Scale, dx, outtime, "out.txt") :
        c \in {0, 1}, tau \in {0, 1}, x1 \in {0, 1}, x2 \in {1, 3},
        runtime \in -1 .. MaxRuntime,
        dx \in {-Half, 0, Half, 3 * (Scale \div 5), Scale, 2 * Scale, 3 * Scale},
        outtime \in {-Half, 0, Half, Scale} }

\* the end-to-end scenario: c=1 tau=1000 x1=0 x2=10 runtime=5 dx=0.1 outtime=1
ExampleFile ==
    ParamFile(Scale, 1000 * Scale, 0, 10 * Scale, 5 * Scale, Scale \div 10,
              Scale, "out.txt")

\* files cut short after n tokens, and files with a word where a number is due
BrokenFiles ==
    { SubSeq(ExampleFile, 1, n) : n \in 0 .. 7 } \cup
    { [ExampleFile EXCEPT ![j] = Word("abc")] : j \in 1 .. 7 }

Files == GridFiles \cup {ExampleFile} \cup BrokenFiles

\* index of the first extraction `infile >> field` that sets failbit:
\* a missing token, or a word where a double is read; 9 when all succeed
FirstBad(f) ==
    LET bad == { j \in 1 .. 8 : j > Len(f) \/ (j <= 7 /\ ~f[j].num) }
    IN  IF bad = {} THEN 9 ELSE CHOOSE j \in bad : \A m \in bad : j <= m

Unset == [k |-> "unset", v |-> 0]

\* Parameters param; no member is initialized
NewParameters ==
    [c |-> Unset, tau |-> Unset, x1 |-> Unset, x2 |-> Unset, runtime |-> Unset,
     dx |-> Unset, outtime |-> Unset, outfilename |-> "",
     ngrid |-> -1, dt |-> Unset, nsteps |-> -1, nper |-> -1]

\* the eight extractions, in order, up to the first that fails
Extract(p, f) ==
    LET fb == FirstBad(f)
        get(j, old) == IF j < fb THEN D(f[j].v) ELSE old
    IN  [p EXCEPT !.c = get(1, @), !.tau = get(2, @), !.x1 = get(3, @),
                  !.x2 = get(4, @), !.runtime = get(5, @), !.dx = get(6, @),
                  !.outtime = get(7, @),
                  !.outfilename = IF 8 < fb THEN f[8].text ELSE @]

Zero == D(0)

\* the input sanity check: the diagnostic of the first test that fires,
\* "" when correctinput becomes true
InputError(p) ==
    IF fle(p.c, Zero) THEN "wave speed c must be postive."
    ELSE IF fle(p.tau, Zero) THEN "damping time tau must be positive or zero"
    ELSE IF fge(p.x1, p.x2) THEN "x1 must be less that x2."
    ELSE IF flt(p.dx, Zero) THEN "dx must be postive."
    ELSE IF fgt(p.dx, fsub(p.x2, p.x1)) THEN "dx too large for domain."
    ELSE IF flt(p.runtime, Zero) THEN "runtime must be positive."
    ELSE IF flt(p.outtime, Zero) THEN "outtime must be positive."
    ELSE IF p.outfilename = "" THEN "no output filename given."
    ELSE ""

----------------------------------------------------------------------------
(* Initial state *)

NoOutput == [open |-> FALSE, closed |-> FALSE, preamble |-> <<>>, blocks |-> <<>>]

NoPre == [cur |-> <<>>, prev |-> <<>>, hcur |-> 0, hprev |-> 0, hnext |-> 0]

Init ==
    /\ unit \in {"main", "readFile"}
    /\ pc = "start"
    /\ argc = 0
    /\ exists = FALSE
    /\ param = NewParameters
    /\ err = <<>>
    /\ exitStatus = -1
    /\ heap = <<>>
    /\ x = 0
    /\ rho_prev = 0
    /\ rho = 0
    /\ rho_next = 0
    /\ s = 0
    /\ i = 0
    /\ out = NoOutput
    /\ pre = NoPre
    /\ writes = {}
    /\ iters = 0
    /\ ub = {}

----------------------------------------------------------------------------
(* main: command line, parameter file, input check *)

frontVars == <<heap, x, rho_prev, rho, rho_next, s, i, out, pre, writes, iters, ub>>

\* if (argc != 2) return 1
CheckArgc ==
    /\ unit = "main" /\ pc = "start"
    /\ \E n \in 1 .. MaxArgc :
         /\ argc' = n
         /\ IF n # 2
            THEN /\ err' = Append(err, "Error: wave1d needs one parameter file argument.")
                 /\ exitStatus' = 1
                 /\ pc' = "ret_args"
            ELSE /\ pc' = "check_exists"
                 /\ UNCHANGED <<err, exitStatus>>
    /\ UNCHANGED <<unit, exists, param>>
    /\ UNCHANGED frontVars

\* if (not std::filesystem::exists(argv[1])) return 2
CheckExists ==
    /\ unit = "main" /\ pc = "check_exists"
    /\ \E e \in BOOLEAN :
         /\ exists' = e
         /\ IF ~e
            THEN /\ err' = Append(err, "Error: parameter file not found.")
                 /\ exitStatus' = 2
                 /\ pc' = "ret_nofile"
            ELSE /\ pc' = "read"
                 /\ UNCHANGED <<err, exitStatus>>
    /\ UNCHANGED <<unit, argc, param>>
    /\ UNCHANGED frontVars

\* the try block: eight extractions; a failure throws and main returns 3
ReadParams ==
    /\ unit = "main" /\ pc = "read"
    /\ \E f \in Files :
         /\ param' = Extract(param, f)
         /\ IF FirstBad(f) <= 8
            THEN /\ err' = Append(err, "Error while reading file.")
                 /\ exitStatus' = 3
                 /\ pc' = "ret_read"
            ELSE /\ pc' = "validate"
                 /\ UNCHANGED <<err, exitStatus>>
    /\ UNCHANGED <<unit, argc, exists>>
    /\ UNCHANGED frontVars

\* the if/else-if chain and `if (not correctinput) return 4`
Validate ==
    /\ unit = "main" /\ pc = "validate"
    /\ IF InputError(param) # ""
       THEN /\ err' = err \o <<InputError(param), "Parameter value error in file">>
            /\ exitStatus' = 4
            /\ pc' = "ret_value"
       ELSE /\ pc' = "derive"
            /\ UNCHANGED <<err, exitStatus>>
    /\ UNCHANGED <<unit, argc, exists, param>>
    /\ UNCHANGED frontVars

----------------------------------------------------------------------------
(* readFile *)

\* std::ifstream infile(filename); infile.exceptions(failbit|badbit):
\* on a stream that failed to open, exceptions() throws at once, outside
\* the try block, and the exception leaves readFile
RfOpen ==
    /\ unit = "readFile" /\ pc = "start"
    /\ \E e \in BOOLEAN :
         /\ exists' = e
         /\ pc' = IF e THEN "rf_read" ELSE "rf_throw"
    /\ UNCHANGED <<unit, argc, param, err, exitStatus>>
    /\ UNCHANGED frontVars

\* the try block of readFile: a failure is caught and std::exit(1) called
RfRead ==
    /\ unit = "readFile" /\ pc = "rf_read"
    /\ \E f \in Files :
         /\ param' = Extract(param, f)
         /\ IF FirstBad(f) <= 8
            THEN /\ err' = Append(err, "Error while reading file.")
                 /\ exitStatus' = 1
                 /\ pc' = "rf_exit_read"
            ELSE /\ pc' = "rf_validate"
                 /\ UNCHANGED <<err, exitStatus>>
    /\ UNCHANGED <<unit, argc, exists>>
    /\ UNCHANGED frontVars

\* the input check of readFile: std::exit(0) when it fails, else return param
RfValidate ==
    /\ unit = "readFile" /\ pc = "rf_validate"
    /\ IF InputError(param) # ""
       THEN /\ err' = err \o <<InputError(param), "Parameter value error in file">>
            /\ exitStatus' = 0
            /\ pc' = "rf_exit_value"
       ELSE /\ pc' = "rf_return"
            /\ UNCHANGED <<err, exitStatus>>
    /\ UNCHANGED <<unit, argc, exists, param>>
    /\ UNCHANGED frontVars

----------------------------------------------------------------------------
(* main: derived parameters, output file, arrays *)

\* (param.x2-param.x1)/param.dx
GridQuotient(p) == fdiv(fsub(p.x2, p.x1), p.dx)

\* param.dt = 0.5*param.dx/param.c
TimeStepSize(p) == fdiv(fmul(D(Half), p.dx), p.c)

\* the four derived parameters; a conversion that is not defined may give
\* any of the values of CastUB
Derive ==
    /\ unit = "main" /\ pc = "derive"
    /\ LET dt == TimeStepSize(param)
           qs == <<GridQuotient(param), fdiv(param.runtime, dt),
                   fdiv(param.outtime, dt)>>
       IN  /\ \E ng \in SizeCast(qs[1]), ns \in SizeCast(qs[2]),
                 np \in SizeCast(qs[3]) :
                 param' = [param EXCEPT !.ngrid = ng, !.dt = dt,
                                        !.nsteps = ns, !.nper = np]
           /\ ub' = IF \A j \in 1 .. 3 : CastDefined(qs[j])
                    THEN ub ELSE ub \cup {"cast"}
    /\ pc' = "open_out"
    /\ UNCHANGED <<unit, argc, exists, err, exitStatus, heap, x, rho_prev, rho,
                   rho_next, s, i, out, pre, writes, iters>>

\* the twelve '#' lines: label and value
Preamble(p) ==
    << <<"#c", p.c>>, <<"#tau", p.tau>>, <<"#x1", p.x1>>, <<"#x2", p.x2>>,
       <<"#runtime", p.runtime>>, <<"#dx", p.dx>>, <<"#outtime", p.outtime>>,
       <<"#filename", p.outfilename>>, <<"#ngrid (derived)", p.ngrid>>,
       <<"#dt (derived)", p.dt>>, <<"#nsteps(derived)", p.nsteps>>,
       <<"#nper (derived)", p.nper>> >>

\* std::ofstream fout(param.outfilename) and the report of the parameters
WritePreamble ==
    /\ unit = "main" /\ pc = "open_out"
    /\ out' = [out EXCEPT !.open = TRUE, !.preamble = Preamble(param)]
    /\ pc' = "alloc"
    /\ UNCHANGED <<unit, argc, exists, param, err, exitStatus, heap, x, rho_prev,
                   rho, rho_next, s, i, pre, writes, iters, ub>>

\* an array of n doubles cannot be allocated from half the range of size_t on
AllocLimit == SizeMod \div 2

\* make_unique<double[]>(n): n value-initialized (zero) doubles
ZeroArray(n) == [j \in 0 .. n - 1 |-> Zero]

\* the four make_unique calls; a failed allocation throws, nothing catches
\* it and the process is aborted
Allocate ==
    /\ unit = "main" /\ pc = "alloc"
    /\ IF param.ngrid >= AllocLimit
       THEN /\ pc' = "aborted"
            /\ exitStatus' = 134
            /\ UNCHANGED <<heap, x, rho_prev, rho, rho_next>>
       ELSE /\ heap' = [b \in 1 .. 4 |-> ZeroArray(param.ngrid)]
            /\ rho_prev' = 1
            /\ rho' = 2
            /\ rho_next' = 3
            /\ x' = 4
            /\ pc' = "init_x"
            /\ UNCHANGED exitStatus
    /\ UNCHANGED <<unit, argc, exists, param, err, s, i, out, pre, writes, iters, ub>>

\* x[j] = x1 + (double(j)*(x2-x1))/double(ngrid-1)
Coordinate(p, j) ==
    fadd(p.x1, fdiv(fmul(Whole(j), fsub(p.x2, p.x1)), Whole(usub(p.ngrid, 1))))

\* the loop that fills x
InitX ==
    /\ unit = "main" /\ pc = "init_x"
    /\ heap' = [heap EXCEPT ![x] = [j \in 0 .. param.ngrid - 1 |-> Coordinate(param, j)]]
    /\ ub' = IF param.ngrid >= 1 /\ usub(param.ngrid, 1) = 0
             THEN ub \cup {"div0"} ELSE ub
    /\ pc' = "init_rho"
    /\ UNCHANGED <<unit, argc, exists, param, err, exitStatus, x, rho_prev, rho,
                   rho_next, s, i, out, pre, writes, iters>>

Quarter == Scale \div 4

\* the triangle between xstart and xfinish, zero outside
Profile(p, xj) ==
    LET width == fsub(p.x2, p.x1)
        xstart == fadd(fmul(D(Quarter), width), p.x1)
        xmid == fmul(D(Half), fadd(p.x2, p.x1))
        xfinish == fadd(fmul(D(3 * Quarter), width), p.x1)
    IN  IF flt(xj, xstart) \/ fgt(xj, xfinish)
        THEN Zero
        ELSE fsub(D(Quarter), fdiv(fabs(fsub(xj, xmid)), width))

\* the loop that fills rho and copies it to rho_prev
InitRho ==
    /\ unit = "main" /\ pc = "init_rho"
    /\ LET f == [j \in 0 .. param.ngrid - 1 |-> Profile(param, heap[x][j])]
       IN  heap' = [heap EXCEPT ![rho] = f, ![rho_prev] = f]
    /\ pc' = "print0"
    /\ UNCHANGED <<unit, argc, exists, param, err, exitStatus, x, rho_prev, rho,
                   rho_next, s, i, out, pre, writes, iters, ub>>

\* the lines "x[j] rho[j]" for j = 0 .. ngrid-1
Rows(p, xs, field) == [j \in 1 .. p.ngrid |-> <<xs[j - 1], field[j - 1]>>]

\* a snapshot block: its "t =" label, its lines, and the number of steps
\* taken when it is written
Block(t, rows, k) == [t |-> t, rows |-> rows, step |-> k]

\* the block of the initial wave, t = 0.0
PrintInitial ==
    /\ unit = "main" /\ pc = "print0"
    /\ out' = [out EXCEPT !.blocks =
                 Append(@, Block(Zero, Rows(param, heap[x], heap[rho]), 0))]
    /\ s' = 0
    /\ pc' = "loop"
    /\ UNCHANGED <<unit, argc, exists, param, err, exitStatus, heap, x, rho_prev,
                   rho, rho_next, i, pre, writes, iters, ub>>

----------------------------------------------------------------------------
(* main: the time-step loop *)

InRange(p, j) == 0 <= j /\ j < p.ngrid

\* statuses of a process killed on a memory fault (SIGSEGV, or SIGABRT from
\* a checking allocator)
FaultStatus == {134, 139}

\* an access outside an array: the process does not survive the loop
Fault ==
    /\ pc' = "crashed"
    /\ ub' = ub \cup {"oob"}
    /\ \E st \in FaultStatus : exitStatus' = st

\* for (s = 0; s < nsteps; s++): the test
LoopTest ==
    /\ unit = "main" /\ pc = "loop"
    /\ IF s < param.nsteps
       THEN /\ pc' = "clamp"
            /\ pre' = [cur |-> heap[rho], prev |-> heap[rho_prev], hcur |-> rho,
                       hprev |-> rho_prev, hnext |-> rho_next]
            /\ writes' = {}
            /\ iters' = 0
       ELSE /\ pc' = "close"
            /\ UNCHANGED <<pre, writes, iters>>
    /\ UNCHANGED <<unit, argc, exists, param, err, exitStatus, heap, x, rho_prev,
                   rho, rho_next, s, i, out, ub>>

\* the two indices set to 0.0 at the start of a step
ClampIndices(p) == {0, usub(p.ngrid, 1)}

\* rho[0] = 0.0; rho[ngrid-1] = 0.0
Clamp ==
    /\ unit = "main" /\ pc = "clamp"
    /\ IF \A j \in ClampIndices(param) : InRange(param, j)
       THEN /\ heap' = [heap EXCEPT ![rho] =
                          [j \in DOMAIN @ |-> IF j \in ClampIndices(param) THEN Zero ELSE @[j]]]
            /\ writes' = writes \cup {<<rho, j>> : j \in ClampIndices(param)}
            /\ i' = 1
            /\ pc' = "inner"
            /\ UNCHANGED <<exitStatus, ub>>
       ELSE /\ Fault
            /\ UNCHANGED <<heap, writes, i>>
    /\ UNCHANGED <<unit, argc, exists, param, err, x, rho_prev, rho, rho_next, s,
                   out, pre, iters>>

\* pow(a, 2)
Square(a) == fmul(a, a)

Two == Whole(2)

\* mutant of NextValue: the laplacian term is multiplied by dt once only
NextValueOneDt(p, cur, prev, j) ==
    LET laplacian == fmul(Square(fdiv(p.c, p.dx)),
                          fsub(fadd(cur[j + 1], cur[j - 1]), fmul(Two, cur[j])))
        friction == fdiv(fsub(cur[j], prev[j]), p.tau)
    IN  fadd(fsub(fmul(Two, cur[j]), prev[j]),
             fmul(p.dt, fsub(laplacian, friction)))

\* the value stored in rho_next[j]
NextValue(p, cur, prev, j) ==
    LET laplacian == fmul(Square(fdiv(p.c, p.dx)),
                          fsub(fadd(cur[j + 1], cur[j - 1]), fmul(Two, cur[j])))
        friction == fdiv(fsub(cur[j], prev[j]), p.tau)
    IN  fadd(fsub(fmul(Two, cur[j]), prev[j]),
             fmul(p.dt, fsub(fmul(laplacian, p.dt), friction)))

\* mutant of InnerLast: the interior loop runs up to ngrid-1
InnerLastOffByOne(p) == usub(p.ngrid, 1)

\* the last index of the interior loop: ngrid-2 in size_t
InnerLast(p) == usub(p.ngrid, 2)

\* for (i = 1; i <= ngrid-2; i++): the test, and one pass of the body when
\* it holds; a pass reads rho[i+1], rho[i-1], rho[i], rho_prev[i] and
\* writes rho_next[i]
Inner ==
    /\ unit = "main" /\ pc = "inner"
    /\ IF i <= InnerLast(param)
       THEN /\ iters' = iters + 1
            /\ IF \A j \in {i - 1, i, i + 1} : InRange(param, j)
               THEN /\ heap' = [heap EXCEPT ![rho_next][i] =
                                  NextValue(param, heap[rho], heap[rho_prev], i)]
                    /\ writes' = writes \cup {<<rho_next, i>>}
                    /\ i' = uadd(i, 1)
                    /\ UNCHANGED <<pc, exitStatus, ub>>
               ELSE /\ Fault
                    /\ UNCHANGED <<heap, writes, i>>
       ELSE /\ pc' = "swap"
            /\ UNCHANGED <<heap, writes, i, iters, exitStatus, ub>>
    /\ UNCHANGED <<unit, argc, exists, param, err, x, rho_prev, rho, rho_next, s,
                   out, pre>>

\* mutant of Rotate: only the first of the two swaps is done
RotateOneSwap(hprev, hcur, hnext) == <<hcur, hprev, hnext>>

\* std::swap(rho_prev, rho); std::swap(rho, rho_next): the new handles
\* <<rho_prev, rho, rho_next>>
Rotate(hprev, hcur, hnext) == <<hcur, hnext, hprev>>

Swap ==
    /\ unit = "main" /\ pc = "swap"
    /\ LET h == Rotate(rho_prev, rho, rho_next)
       IN  /\ rho_prev' = h[1]
           /\ rho' = h[2]
           /\ rho_next' = h[3]
    /\ pc' = "cadence"
    /\ UNCHANGED <<unit, argc, exists, param, err, exitStatus, heap, x, s, i, out,
                   pre, writes, iters, ub>>

\* whether the step that has just been taken is followed by a snapshot
SnapshotDue(p, k) == (k + 1) % p.nper = 0

\* if ((s+1)%nper == 0) { write a block }, then s++.  With nper = 0 the
\* remainder is not defined: the division traps (x86-64), or gives the
\* dividend s+1, which is not 0 (targets whose division does not trap)
Cadence ==
    /\ unit = "main" /\ pc = "cadence"
    /\ IF param.nper = 0
       THEN /\ ub' = ub \cup {"rem0"}
            /\ \E trap \in BOOLEAN :
                 IF trap
                 THEN /\ pc' = "crashed"
                      /\ exitStatus' = 136
                      /\ UNCHANGED s
                 ELSE /\ pc' = "loop"
                      /\ s' = uadd(s, 1)
                      /\ UNCHANGED exitStatus
            /\ UNCHANGED out
       ELSE /\ out' = IF SnapshotDue(param, s)
                      THEN [out EXCEPT !.blocks =
                              Append(@, Block(fmul(Whole(s + 1), param.dt),
                                              Rows(param, heap[x], heap[rho]), s + 1))]
                      ELSE out
            /\ s' = uadd(s, 1)
            /\ pc' = "loop"
            /\ UNCHANGED <<exitStatus, ub>>
    /\ UNCHANGED <<unit, argc, exists, param, err, heap, x, rho_prev, rho, rho_next,
                   i, pre, writes, iters>>

\* fout.close(); the message on std::cout; main returns 0
Close ==
    /\ unit = "main" /\ pc = "close"
    /\ out' = [out EXCEPT !.closed = TRUE]
    /\ exitStatus' = 0
    /\ pc' = "done"
    /\ UNCHANGED <<unit, argc, exists, param, err, heap, x, rho_prev, rho, rho_next,
                   s, i, pre, writes, iters, ub>>

----------------------------------------------------------------------------

Next ==
    \/ CheckArgc
    \/ CheckExists
    \/ ReadParams
    \/ Validate
    \/ RfOpen
    \/ RfRead
    \/ RfValidate
    \/ Derive
    \/ WritePreamble
    \/ Allocate
    \/ InitX
    \/ InitRho
    \/ PrintInitial
    \/ LoopTest
    \/ Clamp
    \/ Inner
    \/ Swap
    \/ Cadence
    \/ Close

Spec == Init /\ [][Next]_vars

----------------------------------------------------------------------------
(* Vocabulary of the properties *)

\* the input constraints as the specification states them
SpecValid(p) ==
    /\ flt(Zero, p.c)
    /\ flt(Zero, p.tau)
    /\ flt(p.x1, p.x2)
    /\ flt(Zero, p.dx)
    /\ fle(p.dx, fsub(p.x2, p.x1))
    /\ fle(Zero, p.runtime)
    /\ fle(Zero, p.outtime)
    /\ p.outfilename # ""

\* positions of main from the first statement of a time step on
StepPcs == {"clamp", "inner", "swap", "cadence"}

\* positions of main where the derived parameters have been assigned
DerivedPcs ==
    {"open_out", "alloc", "aborted", "init_x", "init_rho", "print0", "loop",
     "close", "done", "crashed"} \cup StepPcs

\* positions of main where the four arrays exist
ArrayPcs == DerivedPcs \ {"open_out", "alloc", "aborted"}

\* positions of main where rho holds the field after s whole steps
BetweenSteps == {"loop", "close", "done"}

\* the current field of the step in progress with its two ends set to zero
ClampedCur ==
    [j \in DOMAIN pre.cur |->
        IF j = 0 \/ j = param.ngrid - 1 THEN Zero ELSE pre.cur[j]]

\* the parameters of the end-to-end scenario have been read
IsExample ==
    /\ param.c = Whole(1) /\ param.tau = Whole(1000)
    /\ param.x1 = Zero /\ param.x2 = Whole(10)
    /\ param.runtime = Whole(5) /\ param.dx = D(Scale \div 10)
    /\ param.outtime = Whole(1)

----------------------------------------------------------------------------
(* C1 *)

\* C1: for every parameter set that meets the input constraints, after any
\* number k of time steps (0 <= k <= nsteps) the current field has
\* rho[0] = 0 and rho[ngrid-1] = 0 exactly, and so has the field of every
\* snapshot block written.
C1_BoundaryZero ==
    (unit = "main" /\ pc \in BetweenSteps /\ SpecValid(param)) =>
        /\ heap[rho][0] = Zero
        /\ heap[rho][param.ngrid - 1] = Zero
        /\ \A b \in 1 .. Len(out.blocks) :
              /\ out.blocks[b].rows[1][2] = Zero
              /\ out.blocks[b].rows[param.ngrid][2] = Zero

----------------------------------------------------------------------------
(* C2 *)

\* C2: for every parameter set that meets the input constraints and has
\* nper >= 1, the run writes the block of t = 0 before any step, then one
\* block exactly after each step k in 1..nsteps with k mod nper = 0,
\* labelled k*dt and holding the current field after the rotation, and no
\* other block: each block has ngrid lines, and the run ends with
\* floor(nsteps/nper) + 1 blocks.
C2_SnapshotCadence ==
    (/\ unit = "main"
     /\ pc \in {"loop", "close", "done", "crashed"} \cup StepPcs
     /\ SpecValid(param)
     /\ param.nper >= 1) =>
        LET done == IF pc = "cadence" THEN s + 1 ELSE s
            written == IF pc = "cadence" THEN s ELSE done
        IN  /\ Len(out.blocks) = (written \div param.nper) + 1
            /\ \A b \in 1 .. Len(out.blocks) :
                  /\ out.blocks[b].step = (b - 1) * param.nper
                  /\ out.blocks[b].t = fmul(Whole((b - 1) * param.nper), param.dt)
                  /\ Len(out.blocks[b].rows) = param.ngrid
            /\ (pc = "loop" /\ s % param.nper = 0) =>
                  out.blocks[Len(out.blocks)].rows =
                      Rows(param, heap[x], heap[rho])
            /\ (pc \in {"done", "crashed"}) =>
                  Len(out.blocks) = (param.nsteps \div param.nper) + 1

----------------------------------------------------------------------------
(* C3 *)

\* the return and exit statements reached on a failure
FailurePcs ==
    {"ret_args", "ret_nofile", "ret_read", "ret_value", "rf_exit_read",
     "rf_exit_value"}

\* C3: every failure (missing argument, file not found, unreadable file,
\* parameter out of range), in main and in readFile, writes a diagnostic
\* to the error stream and ends the process with a nonzero status, before
\* the derived parameters are computed and the output file is opened.
C3_FailuresExitNonzero ==
    pc \in FailurePcs =>
        /\ Len(err) >= 1
        /\ exitStatus > 0
        /\ param.ngrid = -1
        /\ ~out.open

----------------------------------------------------------------------------
(* C4 *)

\* C4: the input check rejects every parameter set that breaks one of the
\* constraints c > 0, tau > 0, x1 < x2, 0 < dx <= x2 - x1, runtime >= 0,
\* outtime >= 0, non-empty output name: no such set reaches the derivation
\* of ngrid, dt, nsteps and nper.
C4_InvalidNeverDerived ==
    pc \in {"derive", "rf_return"} => SpecValid(param)

----------------------------------------------------------------------------
(* C5 *)

\* n is the floor of the double q
IsFloorOf(n, q) == q.k = "fin" /\ n * Scale <= q.v /\ q.v < (n + 1) * Scale

\* C5: for all valid inputs ngrid = floor((x2-x1)/dx), dt = 0.5*dx/c,
\* nsteps = floor(runtime/dt) and nper = floor(outtime/dt); they are the
\* values reported in the preamble and do not change afterwards.  The
\* inputs c=1, tau=1000, x1=0, x2=10, runtime=5, dx=0.1, outtime=1 give
\* ngrid=100, dt=0.05, nsteps=100, nper=20, and the finished output has 12
\* preamble lines and 6 blocks of 100 lines.
C5_DerivedParameters ==
    (unit = "main" /\ pc \in DerivedPcs /\ SpecValid(param)) =>
        /\ IsFloorOf(param.ngrid, fdiv(fsub(param.x2, param.x1), param.dx))
        /\ param.dt = fdiv(fmul(D(Scale \div 2), param.dx), param.c)
        /\ IsFloorOf(param.nsteps, fdiv(param.runtime, param.dt))
        /\ IsFloorOf(param.nper, fdiv(param.outtime, param.dt))
        /\ pc # "open_out" =>
              /\ Len(out.preamble) = 12
              /\ out.preamble[9][2] = param.ngrid
              /\ out.preamble[10][2] = param.dt
              /\ out.preamble[11][2] = param.nsteps
              /\ out.preamble[12][2] = param.nper
        /\ IsExample =>
              /\ param.ngrid = 100
              /\ param.dt = D(Scale \div 20)
              /\ param.nsteps = 100
              /\ param.nper = 20
              /\ pc = "done" =>
                    /\ Len(out.blocks) = 6
                    /\ \A b \in 1 .. 6 : Len(out.blocks[b].rows) = 100

\* the end-to-end scenario has derived its parameters, written its
\* preamble and its first block, and stands before its first time step
C5_Witness ==
    /\ unit = "main" /\ pc = "loop" /\ s = 0 /\ IsExample
    /\ param.ngrid = 100 /\ param.nsteps = 100 /\ param.nper = 20
    /\ Len(out.preamble) = 12
    /\ Len(out.blocks) = 1

----------------------------------------------------------------------------
(* C6 *)

\* C6: with ngrid = 2 every time step runs the interior loop zero times
\* and accesses no index out of range: only indices 0 and 1 of the current
\* buffer are written, and no entry of the next buffer.
C6_TwoPointGrid ==
    (/\ unit = "main"
     /\ pc \in {"inner", "swap", "cadence", "loop", "close", "done", "crashed"}
     /\ param.ngrid = 2
     /\ pre.hcur # 0) =>
        /\ iters = 0
        /\ "oob" \notin ub
        /\ writes \subseteq {<<pre.hcur, 0>>, <<pre.hcur, 1>>}
        /\ pc # "inner" => writes = {<<pre.hcur, 0>>, <<pre.hcur, 1>>}

\* a time step on a grid of two points has passed its interior loop
C6_Witness == unit = "main" /\ pc = "swap" /\ param.ngrid = 2 /\ iters = 0

----------------------------------------------------------------------------
(* C7 *)

\* the update rule of the specification at index j, from the clamped
\* current field cur and the field prev of one step earlier
C7_Rule(cur, prev, j) ==
    LET cdx == fdiv(param.c, param.dx)
        lap == fmul(fmul(cdx, cdx),
                    fsub(fadd(cur[j + 1], cur[j - 1]), fmul(Whole(2), cur[j])))
        fric == fdiv(fsub(cur[j], prev[j]), param.tau)
    IN  fadd(fsub(fmul(Whole(2), cur[j]), prev[j]),
             fmul(param.dt, fsub(fmul(lap, param.dt), fric)))

\* C7: when the interior loop of a time step ends, every interior index j
\* in 1..ngrid-2 of the next field has been written in this step and holds
\* 2*rho[j] - rho_prev[j] + dt*((c/dx)^2*(rho[j+1]+rho[j-1]-2*rho[j])*dt
\* - (rho[j]-rho_prev[j])/tau), with rho the current field after its ends
\* were set to 0 in this step and rho_prev the field of one step earlier.
C7_UpdateRule ==
    (unit = "main" /\ pc = "swap") =>
        /\ heap[rho] = ClampedCur
        /\ heap[rho_prev] = pre.prev
        /\ \A j \in 1 .. param.ngrid - 2 :
              /\ <<rho_next, j>> \in writes
              /\ heap[rho_next][j] = C7_Rule(ClampedCur, pre.prev, j)

\* an interior loop has ended on a grid with interior points, at a step
\* where the field moves
C7_Witness ==
    /\ unit = "main" /\ pc = "swap" /\ param.ngrid >= 4 /\ s >= 1
    /\ \E j \in 1 .. param.ngrid - 2 : heap[rho_next][j] # heap[rho][j]

----------------------------------------------------------------------------
(* C8 *)

\* C8: after the rotation of every time step the previous buffer holds the
\* pre-step current field (ends clamped to 0, interior unchanged), the
\* current buffer is the one the step computed its next field into, and
\* the next handle refers to the storage of the pre-step previous buffer;
\* at every point the three handles refer to three different buffers of
\* length ngrid.
C8_BufferRotation ==
    /\ (unit = "main" /\ pc \in ArrayPcs) =>
          /\ Cardinality({rho_prev, rho, rho_next}) = 3
          /\ \A h \in {rho_prev, rho, rho_next} :
                h \in DOMAIN heap /\ DOMAIN heap[h] = 0 .. param.ngrid - 1
    /\ (unit = "main" /\ pc = "cadence") =>
          /\ rho_prev = pre.hcur
          /\ rho = pre.hnext
          /\ rho_next = pre.hprev
          /\ heap[rho_prev] = ClampedCur
          /\ heap[rho_next] = pre.prev
          /\ \A j \in 1 .. param.ngrid - 2 : <<rho, j>> \in writes

\* a second rotation has been done on a grid with interior points
C8_Witness ==
    unit = "main" /\ pc = "cadence" /\ s >= 1 /\ param.ngrid >= 3

----------------------------------------------------------------------------
(* C9 *)

----------------------------------------------------------------------------
(* C10 *)

\* C10: for every parameter set that passes the input check (outtime = 0
\* and outtime < dt included), the cadence test (s+1) % nper of a time
\* step is evaluated with nper >= 1: no remainder modulo zero is computed.
C10_CadenceDivisor ==
    (unit = "main" /\ pc \in DerivedPcs /\ SpecValid(param)) =>
        /\ "rem0" \notin ub
        /\ pc = "cadence" => param.nper >= 1

====
